---- MODULE Spec2Model ----
(***************************************************************************)
(* Model of the raw.qemu.config override engine of lxd/instance/drivers.   *)
(*                                                                         *)
(* Two revisions of the engine are in the tree and both are modelled:      *)
(*   "part_000" : src/unnamed/part_000 (helpers split out, pattern \d+,    *)
(*                new entries appended in sortedConfigKeys order)          *)
(*   "driver"   : src/lxd/instance/drivers/driver_qemu_config_override.go  *)
(*                (one inline function, pattern \d, new entries appended   *)
(*                in map iteration order)                                  *)
(*                                                                         *)
(* Go strings are sequences of byte codes, so that `<` on strings, the     *)
(* regular expression and strconv.Atoi are computed and not assumed.       *)
(* A Go map is a function; ranging over a map visits its keys in an        *)
(* arbitrary order, modelled as a choice among the permutations of its     *)
(* key set.                                                                *)
(***************************************************************************)
EXTENDS Integers, Sequences, FiniteSets, TLC

\* ------------------------------------------------------------------ bounds

\* longest original section list drawn as input
MaxSections == 2

\* largest number of keys in the expandedConfig dictionary drawn as input
MaxDictKeys == 2

\* ------------------------------------------------------------- Go strings

\* s < t on Go strings: bytewise lexicographic
RECURSIVE StrLess(_, _)
StrLess(s, t) ==
    IF t = <<>> THEN FALSE
    ELSE IF s = <<>> THEN TRUE
    ELSE IF Head(s) # Head(t) THEN Head(s) < Head(t)
    ELSE StrLess(Tail(s), Tail(t))

\* strconv.Atoi on a run of ASCII digits (the pattern admits nothing else;
\* a run long enough to overflow int is outside the inputs drawn here)
RECURSIVE AtoiFrom(_, _)
AtoiFrom(digits, acc) ==
    IF digits = <<>> THEN acc
    ELSE AtoiFrom(Tail(digits), acc * 10 + (Head(digits) - 48))

Atoi(digits) == AtoiFrom(digits, 0)

\* ------------------------------------------------------------------- maps

EmptyMap == [x \in {} |-> <<>>]

MapPut(m, k, v) == [x \in DOMAIN m \cup {k} |-> IF x = k THEN v ELSE m[x]]

MapDelete(m, k) == [x \in DOMAIN m \ {k} |-> m[x]]

\* the orders in which `for k := range m` may visit the key set S
IterationOrders(S) ==
    {o \in [1..Cardinality(S) -> S] : \A x \in S : \E i \in DOMAIN o : o[i] = x}

\* ------------------------------------------------------- rawConfigPattern

\* "raw.qemu.config."
Prefix == <<114, 97, 119, 46, 113, 101, 109, 117, 46, 99, 111, 110, 102, 105, 103, 46>>

NoMatch == [ok |-> FALSE, m1 |-> <<>>, m2 |-> <<>>, m3 |-> <<>>]

Submatch(section, digits, entry) ==
    [ok |-> TRUE, m1 |-> section, m2 |-> digits, m3 |-> entry]

\* end of the run [^.\[]+ starting at i: the first '.' (46) or '[' (91)
RECURSIVE sectionEnd(_, _)
sectionEnd(s, i) ==
    IF i > Len(s) \/ s[i] = 46 \/ s[i] = 91 THEN i ELSE sectionEnd(s, i + 1)

\* end of the run \d+ starting at i
RECURSIVE digitsEnd(_, _)
digitsEnd(s, i) ==
    IF i > Len(s) \/ s[i] < 48 \/ s[i] > 57 THEN i ELSE digitsEnd(s, i + 1)

\* FindStringSubmatch of ^raw\.qemu\.config\.([^.\[]+)(?:\[(D)\])?(?:\.(.+))?$
\* where D is \d+ (multiDigit) or \d.  The section class excludes '.' and
\* '[', so the match is unique: after the section comes the end, a bracket
\* group, or '.' and a non-empty entry.
FindStringSubmatch(rawKey, multiDigit) ==
    LET n == Len(Prefix) IN
    IF Len(rawKey) < n \/ SubSeq(rawKey, 1, n) # Prefix THEN NoMatch
    ELSE
      LET s == SubSeq(rawKey, n + 1, Len(rawKey))
          e == sectionEnd(s, 1)
          section == SubSeq(s, 1, e - 1)
      IN
      IF e = 1 THEN NoMatch
      ELSE IF e > Len(s) THEN Submatch(section, <<>>, <<>>)
      ELSE IF s[e] = 91 THEN
        LET d == digitsEnd(s, e + 1)
            digits == SubSeq(s, e + 1, d - 1)
        IN
        IF digits = <<>> \/ (~multiDigit /\ Len(digits) # 1) THEN NoMatch
        ELSE IF d > Len(s) \/ s[d] # 93 THEN NoMatch
        ELSE IF d = Len(s) THEN Submatch(section, digits, <<>>)
        ELSE IF s[d + 1] = 46 /\ d + 1 < Len(s)
             THEN Submatch(section, digits, SubSeq(s, d + 2, Len(s)))
        ELSE NoMatch
      ELSE IF e < Len(s) THEN Submatch(section, <<>>, SubSeq(s, e + 1, Len(s)))
      ELSE NoMatch

\* the pattern without its ^ anchor: also matches after one leading byte
rawConfigPatternUnanchored(rawKey) ==
    IF FindStringSubmatch(rawKey, TRUE).ok THEN FindStringSubmatch(rawKey, TRUE)
    ELSE IF rawKey # <<>> THEN FindStringSubmatch(Tail(rawKey), TRUE)
    ELSE NoMatch

\* part_000: \d+
rawConfigPattern(rawKey) == FindStringSubmatch(rawKey, TRUE)

\* driver: \d
rawConfigPatternDrv(rawKey) == FindStringSubmatch(rawKey, FALSE)

rawConfigKey(sectionName, index, entryKey) ==
    [sectionName |-> sectionName, index |-> index, entryKey |-> entryKey]

cfgEntry(key, value) == [key |-> key, value |-> value]

cfgSection(name, comment, entries) ==
    [name |-> name, comment |-> comment, entries |-> entries]

\* ------------------------------------------------------------- sort.Slice

\* the comparator of sortedConfigKeys in part_000
sortedConfigKeysLess(a, b) ==
    \/ StrLess(a.sectionName, b.sectionName)
    \/ a.index < b.index
    \/ StrLess(a.entryKey, b.entryKey)

\* the comparator of sortedConfigKeys in the driver
sortedConfigKeysLessDrv(a, b) ==
    \/ StrLess(a.sectionName, b.sectionName)
    \/ StrLess(a.entryKey, b.entryKey)
    \/ a.index < b.index

\* the comparator of the rawSections sort in appendSections
rawSectionsLess(a, b) ==
    \/ StrLess(a.sectionName, b.sectionName)
    \/ a.index < b.index

less(cmp, a, b) ==
    CASE cmp = "keys" -> sortedConfigKeysLess(a, b)
      [] cmp = "keysDrv" -> sortedConfigKeysLessDrv(a, b)
      [] cmp = "sections" -> rawSectionsLess(a, b)

Swap(data, i, j) ==
    [data EXCEPT ![i] = data[j], ![j] = data[i]]

\* sort.Slice on a slice as short as the ones here (fewer than 7 elements)
\* is an insertion sort:
\*   for i := 1; i < n; i++ { for j := i; j > 0 && less(j, j-1); j-- { swap } }
RECURSIVE sinkLeft(_, _, _)
sinkLeft(cmp, data, j) ==
    IF j > 1 /\ less(cmp, data[j], data[j - 1])
    THEN sinkLeft(cmp, Swap(data, j, j - 1), j - 1)
    ELSE data

RECURSIVE insertionSortFrom(_, _, _)
insertionSortFrom(cmp, data, i) ==
    IF i > Len(data) THEN data
    ELSE insertionSortFrom(cmp, sinkLeft(cmp, data, i), i + 1)

sortSlice(cmp, data) == insertionSortFrom(cmp, data, 2)

\* sortedConfigKeys, given the order in which the range over cfgMap ran
sortedConfigKeys(order) == sortSlice("keys", order)

sortedConfigKeysDrv(order) == sortSlice("keysDrv", order)

\* ---------------------------------------------------- part_000: helpers

RECURSIVE extractLoop(_, _, _)
extractLoop(expandedConfig, order, rv) ==
    IF order = <<>> THEN rv
    ELSE
      LET rawKey == Head(order)
          matches == rawConfigPattern(rawKey)
          k == rawConfigKey(matches.m1,
                            IF matches.m2 # <<>> THEN Atoi(matches.m2) ELSE 0,
                            matches.m3)
      IN
      IF ~matches.ok THEN extractLoop(expandedConfig, Tail(order), rv)
      ELSE extractLoop(expandedConfig, Tail(order), MapPut(rv, k, expandedConfig[rawKey]))

\* extractRawConfigKeys, given the order in which the range over
\* expandedConfig ran (a later key overwrites an earlier one of equal address)
extractRawConfigKeys(expandedConfig, order) ==
    extractLoop(expandedConfig, order, EmptyMap)

RECURSIVE updateEntriesLoop(_, _, _, _)
updateEntriesLoop(entries, sk, cfgMap, rv) ==
    IF entries = <<>> THEN [entries |-> rv, cfgMap |-> cfgMap]
    ELSE
      LET entry == Head(entries)
          ek == rawConfigKey(sk.sectionName, sk.index, entry.key)
      IN
      IF ek \in DOMAIN cfgMap
      THEN updateEntriesLoop(Tail(entries), sk, MapDelete(cfgMap, ek),
                             Append(rv, cfgEntry(entry.key, cfgMap[ek])))
      ELSE updateEntriesLoop(Tail(entries), sk, cfgMap,
                             Append(rv, cfgEntry(entry.key, entry.value)))

\* a slip: the matched key is consumed but the entry keeps its old value
RECURSIVE keepValueLoop(_, _, _)
keepValueLoop(entries, sk, cfgMap) ==
    IF entries = <<>> THEN cfgMap
    ELSE keepValueLoop(Tail(entries), sk,
             MapDelete(cfgMap, rawConfigKey(sk.sectionName, sk.index, Head(entries).key)))

updateEntriesKeepValue(entries, sk, cfgMap) ==
    [entries |-> entries, cfgMap |-> keepValueLoop(entries, sk, cfgMap)]

\* updateEntries: the rebuilt entry list and the map after its deletions
updateEntries(entries, sk, cfgMap) ==
    updateEntriesLoop(entries, sk, cfgMap, <<>>)

RECURSIVE appendEntriesLoop(_, _, _, _)
appendEntriesLoop(entries, sk, cfgMap, sortedKeys) ==
    IF sortedKeys = <<>> THEN [entries |-> entries, cfgMap |-> cfgMap]
    ELSE
      LET rawKey == Head(sortedKeys) IN
      IF rawKey.sectionName # sk.sectionName \/ rawKey.index # sk.index
      THEN appendEntriesLoop(entries, sk, cfgMap, Tail(sortedKeys))
      ELSE appendEntriesLoop(Append(entries, cfgEntry(rawKey.entryKey, cfgMap[rawKey])),
                             sk, MapDelete(cfgMap, rawKey), Tail(sortedKeys))

\* appendEntries, given the order in which sortedConfigKeys ranged over cfgMap
appendEntries(entries, sk, cfgMap, order) ==
    appendEntriesLoop(entries, sk, cfgMap, sortedConfigKeys(order))

\* a slip: a section-level key of any value deletes the section
sectionDeletedAnyValue(cfgMap, sk) == sk \in DOMAIN cfgMap

\* the test `if val, ok := cfgMap[sk]; ok { if val == "" {` of updateSections
sectionDeleted(cfgMap, sk) == sk \in DOMAIN cfgMap /\ cfgMap[sk] = <<>>

\* a slip: the counter is set, never advanced, so that every occurrence of a
\* name is taken for occurrence 0
countSectionNoIncrement(sectionCounts, name) == MapPut(sectionCounts, name, 1)

\* sectionCounts after the loop of updateSections has counted `name`
countSection(sectionCounts, name) ==
    IF name \in DOMAIN sectionCounts
    THEN MapPut(sectionCounts, name, sectionCounts[name] + 1)
    ELSE MapPut(sectionCounts, name, 1)

MergeState(newCfg, cfgMap, sectionCounts) ==
    [newCfg |-> newCfg, cfgMap |-> cfgMap, sectionCounts |-> sectionCounts]

\* one iteration of the loop of updateSections on `section`: the states it
\* can end in, one per order of the range inside sortedConfigKeys
updateSectionsIter(st, section) ==
    LET counts == countSection(st.sectionCounts, section.name)
        index == counts[section.name] - 1
        sk == rawConfigKey(section.name, index, <<>>)
        u == updateEntries(section.entries, sk, st.cfgMap)
    IN
    IF sectionDeleted(st.cfgMap, sk)
    THEN {MergeState(st.newCfg, MapDelete(st.cfgMap, sk), counts)}
    ELSE {MergeState(
             Append(st.newCfg,
                    cfgSection(section.name, section.comment,
                               appendEntries(u.entries, sk, u.cfgMap, order).entries)),
             appendEntries(u.entries, sk, u.cfgMap, order).cfgMap,
             counts) : order \in IterationOrders(DOMAIN u.cfgMap)}

\* a slip: the section-level leftovers are not skipped
isSectionKeyNever(k) == FALSE

\* the test `if k.entryKey == ""` of appendSections
isSectionKey(k) == k.entryKey = <<>>

\* the first loop of appendSections: tmp, keyed by section address
RECURSIVE newSections(_, _, _)
newSections(sortedKeys, cfgMap, tmp) ==
    IF sortedKeys = <<>> THEN tmp
    ELSE
      LET k == Head(sortedKeys)
          sectionKey == rawConfigKey(k.sectionName, k.index, <<>>)
          section == IF sectionKey \in DOMAIN tmp THEN tmp[sectionKey]
                     ELSE cfgSection(k.sectionName, <<>>, <<>>)
      IN
      IF isSectionKey(k) THEN newSections(Tail(sortedKeys), cfgMap, tmp)
      ELSE newSections(Tail(sortedKeys), cfgMap,
               MapPut(tmp, sectionKey,
                      cfgSection(section.name, section.comment,
                                 Append(section.entries, cfgEntry(k.entryKey, cfgMap[k])))))

\* the sections of tmp in the order of the sorted rawSections
sectionsInOrder(tmp, rawSections) ==
    [i \in 1..Len(rawSections) |-> tmp[rawSections[i]]]

\* appendSections: the lists it can return, one per pair of range orders
\* (over cfgMap inside sortedConfigKeys, and over tmp)
appendSections(newCfg, cfgMap) ==
    UNION {
      {newCfg \o sectionsInOrder(newSections(sortedConfigKeys(order), cfgMap, EmptyMap),
                                 sortSlice("sections", order2))
         : order2 \in IterationOrders(
                        DOMAIN newSections(sortedConfigKeys(order), cfgMap, EmptyMap))}
      : order \in IterationOrders(DOMAIN cfgMap)}

\* ------------------------------------------------------ driver: helpers

RECURSIVE extractLoopDrv(_, _, _)
extractLoopDrv(expandedConfig, order, rv) ==
    IF order = <<>> THEN rv
    ELSE
      LET rawKey == Head(order)
          matches == rawConfigPatternDrv(rawKey)
          k == rawConfigKey(matches.m1,
                            IF matches.m2 # <<>> THEN Atoi(matches.m2) ELSE 0,
                            matches.m3)
      IN
      IF ~matches.ok THEN extractLoopDrv(expandedConfig, Tail(order), rv)
      ELSE extractLoopDrv(expandedConfig, Tail(order), MapPut(rv, k, expandedConfig[rawKey]))

qemuExtractRawConfigKeys(expandedConfig, order) ==
    extractLoopDrv(expandedConfig, order, EmptyMap)

\* the loop over section.entries of the driver's qemuRawCfgOverride
updateEntriesDrv(entries, sk, tmp) ==
    updateEntriesLoop(entries, sk, tmp, <<>>)

\* the loop `for rawKey, rawValue := range tmp` that appends the new entries,
\* given the order of the range
RECURSIVE appendEntriesDrv(_, _, _, _)
appendEntriesDrv(entries, sk, tmp, order) ==
    IF order = <<>> THEN [entries |-> entries, cfgMap |-> tmp]
    ELSE
      LET rawKey == Head(order) IN
      IF rawKey.sectionName # sk.sectionName \/ rawKey.index # sk.index
      THEN appendEntriesDrv(entries, sk, tmp, Tail(order))
      ELSE appendEntriesDrv(Append(entries, cfgEntry(rawKey.entryKey, tmp[rawKey])),
                            sk, MapDelete(tmp, rawKey), Tail(order))

sectionDeletedDrv(tmp, sk) == sk \in DOMAIN tmp /\ tmp[sk] = <<>>

\* one iteration of the loop over cfg of the driver's qemuRawCfgOverride
mergeIterDrv(st, section) ==
    LET counts == countSection(st.sectionCounts, section.name)
        index == counts[section.name] - 1
        sk == rawConfigKey(section.name, index, <<>>)
        u == updateEntriesDrv(section.entries, sk, st.cfgMap)
    IN
    IF sectionDeletedDrv(st.cfgMap, sk)
    THEN {MergeState(st.newCfg, MapDelete(st.cfgMap, sk), counts)}
    ELSE {MergeState(
             Append(st.newCfg,
                    cfgSection(section.name, section.comment,
                               appendEntriesDrv(u.entries, sk, u.cfgMap, order).entries)),
             appendEntriesDrv(u.entries, sk, u.cfgMap, order).cfgMap,
             counts) : order \in IterationOrders(DOMAIN u.cfgMap)}

RECURSIVE newSectionsDrv(_, _, _)
newSectionsDrv(sortedKeys, tmp, sectionMap) ==
    IF sortedKeys = <<>> THEN sectionMap
    ELSE
      LET k == Head(sortedKeys)
          sectionKey == rawConfigKey(k.sectionName, k.index, <<>>)
          section == IF sectionKey \in DOMAIN sectionMap THEN sectionMap[sectionKey]
                     ELSE cfgSection(k.sectionName, <<>>, <<>>)
      IN
      IF k.entryKey = <<>> THEN newSectionsDrv(Tail(sortedKeys), tmp, sectionMap)
      ELSE newSectionsDrv(Tail(sortedKeys), tmp,
               MapPut(sectionMap, sectionKey,
                      cfgSection(section.name, section.comment,
                                 Append(section.entries, cfgEntry(k.entryKey, tmp[k])))))

\* the tail of the driver's qemuRawCfgOverride, from sectionMap on
appendSectionsDrv(newCfg, tmp) ==
    UNION {
      {newCfg \o sectionsInOrder(newSectionsDrv(sortedConfigKeysDrv(order), tmp, EmptyMap),
                                 sortSlice("sections", order2))
         : order2 \in IterationOrders(
                        DOMAIN newSectionsDrv(sortedConfigKeysDrv(order), tmp, EmptyMap))}
      : order \in IterationOrders(DOMAIN tmp)}

\* ----------------------------------------------- the function as a whole

mergeIter(impl, st, section) ==
    IF impl = "part_000" THEN updateSectionsIter(st, section)
    ELSE mergeIterDrv(st, section)

\* the states the merge loop can be in after the sections cfg[p..]
RECURSIVE mergeFrom(_, _, _, _)
mergeFrom(impl, cfg, p, states) ==
    IF p > Len(cfg) THEN states
    ELSE mergeFrom(impl, cfg, p + 1,
                   UNION {mergeIter(impl, st, cfg[p]) : st \in states})

overrideMaps(impl, expandedConfig) ==
    {IF impl = "part_000" THEN extractRawConfigKeys(expandedConfig, order)
     ELSE qemuExtractRawConfigKeys(expandedConfig, order)
       : order \in IterationOrders(DOMAIN expandedConfig)}

\* every list qemuRawCfgOverride(cfg, expandedConfig) can return, over all
\* the orders in which its ranges over maps can run
qemuRawCfgOverride(impl, cfg, expandedConfig) ==
    UNION {
      IF m = EmptyMap THEN {cfg}
      ELSE UNION {IF impl = "part_000" THEN appendSections(st.newCfg, st.cfgMap)
                  ELSE appendSectionsDrv(st.newCfg, st.cfgMap)
                    : st \in mergeFrom(impl, cfg, 1, {MergeState(<<>>, m, EmptyMap)})}
      : m \in overrideMaps(impl, expandedConfig)}

\* ----------------------------------------------------------------- inputs

\* section names "a", "b"; entry keys "x", "y"; comment "c"; values "1", "5"
SectionTemplates ==
    { cfgSection(<<97>>, <<99>>, <<>>),
      cfgSection(<<97>>, <<99>>,
                 <<cfgEntry(<<120>>, <<49>>), cfgEntry(<<121>>, <<49>>)>>),
      cfgSection(<<98>>, <<99>>, <<cfgEntry(<<120>>, <<49>>)>>) }

\* the original section lists: entry keys are unique within a section
Cfgs == UNION {[1..n -> SectionTemplates] : n \in 0..MaxSections}

\* the keys a dictionary is drawn from
RawKeys ==
    { Prefix \o <<97, 46, 120>>,                     \* raw.qemu.config.a.x
      Prefix \o <<97, 91, 48, 93, 46, 120>>,         \* raw.qemu.config.a[0].x
      Prefix \o <<97, 46, 121>>,                     \* raw.qemu.config.a.y
      Prefix \o <<97, 91, 49, 93, 46, 121>>,         \* raw.qemu.config.a[1].y
      Prefix \o <<97>>,                              \* raw.qemu.config.a
      Prefix \o <<97, 91, 49, 93>>,                  \* raw.qemu.config.a[1]
      Prefix \o <<97, 91, 50, 93, 46, 120>>,         \* raw.qemu.config.a[2].x
      Prefix \o <<97, 91, 49, 49, 93, 46, 120>>,     \* raw.qemu.config.a[11].x
      Prefix \o <<98, 91, 49, 93, 46, 120>>,         \* raw.qemu.config.b[1].x
      <<120>> \o Prefix \o <<97, 46, 120>>,          \* xraw.qemu.config.a.x
      Prefix \o <<97, 91, 120, 93, 46, 121>> }       \* raw.qemu.config.a[x].y

\* the values: "" and "5"
Values == {<<>>, <<53>>}

Dicts ==
    UNION {[K -> Values] : K \in {K \in SUBSET RawKeys : Cardinality(K) <= MaxDictKeys}}

Impls == {"part_000", "driver"}

\* ---------------------------------------------------------- state machine

VARIABLES
    impl,            \* which revision runs
    cfg,             \* argument: the original section list
    expandedConfig,  \* argument: the dictionary
    pc,              \* position in qemuRawCfgOverride
    overrides,       \* the map as extractRawConfigKeys returned it
    cfgMap,          \* the working map (tmp in the driver), consumed on the way
    sectionCounts,   \* sectionCounts (sectionNameCountMap in the driver)
    pos,             \* index of the next original section of the merge loop
    newCfg,          \* the list under construction
    result           \* the returned list

vars == <<impl, cfg, expandedConfig, pc, overrides, cfgMap, sectionCounts, pos,
          newCfg, result>>

Init ==
    /\ impl \in Impls
    /\ cfg \in Cfgs
    /\ expandedConfig \in Dicts
    /\ pc = "start"
    /\ overrides = EmptyMap
    /\ cfgMap = EmptyMap
    /\ sectionCounts = EmptyMap
    /\ pos = 1
    /\ newCfg = <<>>
    /\ result = <<>>

\* part_000: cfgMap := extractRawConfigKeys(expandedConfig); if len(cfgMap) == 0
ExtractKeys ==
    /\ pc = "start"
    /\ impl = "part_000"
    /\ \E order \in IterationOrders(DOMAIN expandedConfig) :
         /\ cfgMap' = extractRawConfigKeys(expandedConfig, order)
         /\ overrides' = cfgMap'
         /\ pc' = IF cfgMap' = EmptyMap THEN "unmodified" ELSE "merge"
    /\ UNCHANGED <<impl, cfg, expandedConfig, sectionCounts, pos, newCfg, result>>

\* part_000: return cfg
ReturnUnmodified ==
    /\ pc = "unmodified"
    /\ impl = "part_000"
    /\ result' = cfg
    /\ pc' = "done"
    /\ UNCHANGED <<impl, cfg, expandedConfig, overrides, cfgMap, sectionCounts, pos, newCfg>>

\* part_000: one iteration of the loop of updateSections
UpdateSections ==
    /\ pc = "merge"
    /\ impl = "part_000"
    /\ pos <= Len(cfg)
    /\ \E st \in updateSectionsIter(MergeState(newCfg, cfgMap, sectionCounts), cfg[pos]) :
         /\ newCfg' = st.newCfg
         /\ cfgMap' = st.cfgMap
         /\ sectionCounts' = st.sectionCounts
    /\ pos' = pos + 1
    /\ UNCHANGED <<impl, cfg, expandedConfig, pc, overrides, result>>

\* part_000: newCfg = appendSections(newCfg, cfgMap); return newCfg
AppendSections ==
    /\ pc = "merge"
    /\ impl = "part_000"
    /\ pos > Len(cfg)
    /\ result' \in appendSections(newCfg, cfgMap)
    /\ pc' = "done"
    /\ UNCHANGED <<impl, cfg, expandedConfig, overrides, cfgMap, sectionCounts, pos, newCfg>>

\* driver: tmp := qemuExtractRawConfigKeys(expandedConfig); if len(tmp) == 0
ExtractKeysDrv ==
    /\ pc = "start"
    /\ impl = "driver"
    /\ \E order \in IterationOrders(DOMAIN expandedConfig) :
         /\ cfgMap' = qemuExtractRawConfigKeys(expandedConfig, order)
         /\ overrides' = cfgMap'
         /\ pc' = IF cfgMap' = EmptyMap THEN "unmodified" ELSE "merge"
    /\ UNCHANGED <<impl, cfg, expandedConfig, sectionCounts, pos, newCfg, result>>

\* driver: return cfg
ReturnUnmodifiedDrv ==
    /\ pc = "unmodified"
    /\ impl = "driver"
    /\ result' = cfg
    /\ pc' = "done"
    /\ UNCHANGED <<impl, cfg, expandedConfig, overrides, cfgMap, sectionCounts, pos, newCfg>>

\* driver: one iteration of the loop over cfg
MergeSectionDrv ==
    /\ pc = "merge"
    /\ impl = "driver"
    /\ pos <= Len(cfg)
    /\ \E st \in mergeIterDrv(MergeState(newCfg, cfgMap, sectionCounts), cfg[pos]) :
         /\ newCfg' = st.newCfg
         /\ cfgMap' = st.cfgMap
         /\ sectionCounts' = st.sectionCounts
    /\ pos' = pos + 1
    /\ UNCHANGED <<impl, cfg, expandedConfig, pc, overrides, result>>

\* driver: the new sections, sorted and appended; return newCfg
AppendSectionsDrv ==
    /\ pc = "merge"
    /\ impl = "driver"
    /\ pos > Len(cfg)
    /\ result' \in appendSectionsDrv(newCfg, cfgMap)
    /\ pc' = "done"
    /\ UNCHANGED <<impl, cfg, expandedConfig, overrides, cfgMap, sectionCounts, pos, newCfg>>

Next ==
    \/ ExtractKeys
    \/ ReturnUnmodified
    \/ UpdateSections
    \/ AppendSections
    \/ ExtractKeysDrv
    \/ ReturnUnmodifiedDrv
    \/ MergeSectionDrv
    \/ AppendSectionsDrv

Spec == Init /\ [][Next]_vars

\* ------------------------------------------------- vocabulary of the claims

Done == pc = "done"

\* 0-based position of cfg[p] among the same-named sections of the original list
OccIndex(p) == Cardinality({q \in 1..(p - 1) : cfg[q].name = cfg[p].name})

SectionKeyAt(p) == rawConfigKey(cfg[p].name, OccIndex(p), <<>>)

EntryKeyAt(p, k) == rawConfigKey(cfg[p].name, OccIndex(p), k)

\* the dictionary deletes the section occurrence cfg[p]
Deleted(p) ==
    SectionKeyAt(p) \in DOMAIN overrides /\ overrides[SectionKeyAt(p)] = <<>>

Surviving == {p \in 1..Len(cfg) : ~Deleted(p)}

\* where the surviving cfg[p] stands in the output
OutPos(p) == Cardinality({q \in Surviving : q <= p})

\* the keys of the original entries of cfg[p]
OrigKeys(p) == {cfg[p].entries[e].key : e \in 1..Len(cfg[p].entries)}

\* the override map addresses occurrence cfg[p] in some way
Addressed(p) ==
    \E k \in DOMAIN overrides :
        k.sectionName = cfg[p].name /\ k.index = OccIndex(p)

\* some original section is occurrence index of sectionName
OccurrenceExists(sectionName, index) ==
    \E p \in 1..Len(cfg) : cfg[p].name = sectionName /\ OccIndex(p) = index

\* the output has a place for every surviving original section
MergedPresent == Len(result) >= Cardinality(Surviving)

\* the positions of the output after the sections of the merge pass
AppendedPos == (Cardinality(Surviving) + 1)..Len(result)

\* the address of a literal key under the grammar of the specification
\* (section, optional [digits], optional .entry)
GrammarKey(rawKey) == FindStringSubmatch(rawKey, TRUE).ok

GrammarAddress(rawKey) ==
    LET m == FindStringSubmatch(rawKey, TRUE) IN
    rawConfigKey(m.m1, IF m.m2 # <<>> THEN Atoi(m.m2) ELSE 0, m.m3)

\* (name, index) before (name, index) in the lexicographic order
PairLess(a, b) ==
    \/ StrLess(a.sectionName, b.sectionName)
    \/ a.sectionName = b.sectionName /\ a.index < b.index

\* a set of section addresses as the list in lexicographic order
LexSorted(pairs) ==
    CHOOSE o \in IterationOrders(pairs) :
        \A i, j \in DOMAIN o : i < j => PairLess(o[i], o[j])

\* ------------------------------------------------------------------ claims

\* C1: an entry of a surviving section occurrence whose address is overridden
\* with a non-empty value stands at its original position, in the section at
\* its original position among the surviving sections, with the new value;
\* an entry that no key addresses keeps its value, and a section that no key
\* addresses is returned as it was.
C1_OverrideInPlace ==
    Done =>
      /\ MergedPresent
      /\ \A p \in Surviving :
           LET out == result[OutPos(p)] IN
           /\ out.name = cfg[p].name
           /\ out.comment = cfg[p].comment
           /\ Len(out.entries) >= Len(cfg[p].entries)
           /\ \A e \in 1..Len(cfg[p].entries) :
                LET k == cfg[p].entries[e].key
                    ek == EntryKeyAt(p, k)
                IN
                /\ out.entries[e].key = k
                /\ (ek \in DOMAIN overrides /\ overrides[ek] # <<>>)
                     => out.entries[e].value = overrides[ek]
                /\ ek \notin DOMAIN overrides
                     => out.entries[e].value = cfg[p].entries[e].value
           /\ ~Addressed(p) => out = cfg[p]

\* a run that overrode the second entry of a section with a non-empty value
\* and left the first one alone
C1_Witness ==
    /\ Done
    /\ \E p \in Surviving :
         /\ Len(cfg[p].entries) = 2
         /\ EntryKeyAt(p, cfg[p].entries[2].key) \in DOMAIN overrides
         /\ EntryKeyAt(p, cfg[p].entries[1].key) \notin DOMAIN overrides
         /\ overrides[EntryKeyAt(p, cfg[p].entries[2].key)] # <<>>
         /\ overrides[EntryKeyAt(p, cfg[p].entries[2].key)] # cfg[p].entries[2].value
         /\ result[OutPos(p)].entries[2].value
              = overrides[EntryKeyAt(p, cfg[p].entries[2].key)]

\* C2: an entry whose address is overridden with the empty string is absent
\* from its section in the output.
C2_EntryRemoved ==
    Done =>
      \A p \in Surviving :
        \A k \in OrigKeys(p) :
          (EntryKeyAt(p, k) \in DOMAIN overrides /\ overrides[EntryKeyAt(p, k)] = <<>>)
            => /\ MergedPresent
               /\ \A e \in 1..Len(result[OutPos(p)].entries) :
                    result[OutPos(p)].entries[e].key # k

\* C3: the sections of the merge pass are the original ones less the deleted
\* occurrences, in order, and each of them is edited only by the keys that
\* carry its index in the original list: an entry at an original position
\* has the original value or the one overriding its own address, an entry
\* after them comes from a key of its own address, and every section after
\* the merged ones is a new one.
C3_SectionDeletionKeepsIndices ==
    (Done /\ overrides # EmptyMap) =>
      /\ MergedPresent
      /\ \A p \in Surviving :
           LET out == result[OutPos(p)] IN
           /\ out.name = cfg[p].name
           /\ out.comment = cfg[p].comment
           /\ Len(out.entries) >= Len(cfg[p].entries)
           /\ \A e \in 1..Len(out.entries) :
                LET ek == EntryKeyAt(p, out.entries[e].key) IN
                IF e <= Len(cfg[p].entries)
                THEN /\ out.entries[e].key = cfg[p].entries[e].key
                     /\ out.entries[e].value =
                          IF ek \in DOMAIN overrides THEN overrides[ek]
                          ELSE cfg[p].entries[e].value
                ELSE /\ ek \in DOMAIN overrides
                     /\ out.entries[e].value = overrides[ek]
           /\ \A k \in DOMAIN overrides :
                (k.sectionName = cfg[p].name /\ k.index = OccIndex(p)
                   /\ k.entryKey # <<>>)
                  => \E e \in 1..Len(out.entries) :
                       out.entries[e] = cfgEntry(k.entryKey, overrides[k])
      /\ \A j \in AppendedPos : result[j].comment = <<>>

\* a run that deleted the first of two same-named sections and gave the
\* second one a new entry addressed to index 1
C3_Witness ==
    /\ Done
    /\ Len(cfg) = 2
    /\ cfg[1].name = cfg[2].name
    /\ Deleted(1)
    /\ ~Deleted(2)
    /\ Len(result) = 1
    /\ \E k \in DOMAIN overrides :
         /\ k.sectionName = cfg[2].name
         /\ k.index = 1
         /\ k.entryKey # <<>>
         /\ k.entryKey \notin OrigKeys(2)
         /\ result[1].entries = cfg[2].entries \o <<cfgEntry(k.entryKey, overrides[k])>>

\* C4: a section-level key with a non-empty value leaves its section
\* occurrence with the entries it would have without the key: the original
\* ones, then entries of entry-level keys of its address.
C4_BareValueNoEffect ==
    Done =>
      \A p \in Surviving :
        (SectionKeyAt(p) \in DOMAIN overrides /\ overrides[SectionKeyAt(p)] # <<>>)
          => /\ MergedPresent
             /\ Len(result[OutPos(p)].entries) >= Len(cfg[p].entries)
             /\ \A e \in 1..Len(result[OutPos(p)].entries) :
                  /\ result[OutPos(p)].entries[e].key # <<>>
                  /\ e <= Len(cfg[p].entries)
                       => result[OutPos(p)].entries[e].key = cfg[p].entries[e].key
                  /\ e > Len(cfg[p].entries)
                       => EntryKeyAt(p, result[OutPos(p)].entries[e].key)
                            \in DOMAIN overrides

\* the new entries of the surviving cfg[p]: what follows its original entries,
\* less the entries of empty key
NewEntries(p) ==
    LET out == result[OutPos(p)].entries
        HasKey(entry) == entry.key # <<>>
    IN SelectSeq(SubSeq(out, Len(cfg[p].entries) + 1, Len(out)), HasKey)

\* C5: an entry-level key whose occurrence exists and has no such entry puts
\* its entry after the original entries of that occurrence; the new entries
\* of an occurrence are in ascending order of entry key and all come from
\* keys of its own address.
C5_NewEntriesAppendedSorted ==
    Done =>
      \A p \in Surviving :
        /\ MergedPresent
        /\ \A k \in DOMAIN overrides :
             (k.sectionName = cfg[p].name /\ k.index = OccIndex(p)
                /\ k.entryKey # <<>> /\ k.entryKey \notin OrigKeys(p))
               => \E e \in 1..Len(NewEntries(p)) :
                    NewEntries(p)[e] = cfgEntry(k.entryKey, overrides[k])
        /\ \A e \in 1..Len(NewEntries(p)) :
             /\ EntryKeyAt(p, NewEntries(p)[e].key) \in DOMAIN overrides
             /\ NewEntries(p)[e].key \notin OrigKeys(p)
        /\ \A e1, e2 \in 1..Len(NewEntries(p)) :
             e1 < e2 => StrLess(NewEntries(p)[e1].key, NewEntries(p)[e2].key)

\* the section addresses that entry-level keys of the dictionary name and
\* that are no occurrence of the original list
GrammarNewPairs ==
    {rawConfigKey(GrammarAddress(rawKey).sectionName, GrammarAddress(rawKey).index, <<>>) :
       rawKey \in {r \in DOMAIN expandedConfig :
                     /\ GrammarKey(r)
                     /\ GrammarAddress(r).entryKey # <<>>
                     /\ ~OccurrenceExists(GrammarAddress(r).sectionName,
                                          GrammarAddress(r).index)}}

\* the literal keys of the dictionary that address entries of the section pair
GrammarKeysOf(pair) ==
    {r \in DOMAIN expandedConfig :
       /\ GrammarKey(r)
       /\ GrammarAddress(r).entryKey # <<>>
       /\ GrammarAddress(r).sectionName = pair.sectionName
       /\ GrammarAddress(r).index = pair.index}

\* the section is the new section of the pair: its name, and exactly the
\* entries addressed to the pair, in ascending order of entry key
IsNewSectionOf(section, pair) ==
    /\ section.name = pair.sectionName
    /\ Len(section.entries) =
         Cardinality({GrammarAddress(r).entryKey : r \in GrammarKeysOf(pair)})
    /\ \A e \in 1..Len(section.entries) :
         \E r \in GrammarKeysOf(pair) :
           section.entries[e] = cfgEntry(GrammarAddress(r).entryKey, expandedConfig[r])
    /\ \A e1, e2 \in 1..Len(section.entries) :
         e1 < e2 => StrLess(section.entries[e1].key, section.entries[e2].key)

\* C6: when no section is deleted, the output ends with exactly one new
\* section per section address that entry-level keys name and that is no
\* occurrence of the original list (multi-digit indices included), each with
\* the entries addressed to it in ascending key order.
C6_OneNewSectionPerPair ==
    (Done /\ Surviving = 1..Len(cfg) /\ GrammarNewPairs # {}) =>
      /\ MergedPresent
      /\ Cardinality(AppendedPos) = Cardinality(GrammarNewPairs)
      /\ \E f \in [AppendedPos -> GrammarNewPairs] :
           /\ \A j1, j2 \in AppendedPos : j1 # j2 => f[j1] # f[j2]
           /\ \A j \in AppendedPos : IsNewSectionOf(result[j], f[j])

\* the section addresses left in the override map for the append pass
LeftoverPairs ==
    {rawConfigKey(k.sectionName, k.index, <<>>) :
       k \in {k \in DOMAIN overrides :
                /\ k.entryKey # <<>>
                /\ ~\E p \in Surviving :
                      cfg[p].name = k.sectionName /\ OccIndex(p) = k.index}}

\* C7: the appended sections stand in the lexicographic order of their
\* (sectionName, index) addresses.
C7_AppendedInLexOrder ==
    Done =>
      /\ MergedPresent
      /\ Cardinality(AppendedPos) = Cardinality(LeftoverPairs)
      /\ \A j \in 1..Cardinality(LeftoverPairs) :
           LET pair == LexSorted(LeftoverPairs)[j]
               section == result[Cardinality(Surviving) + j]
           IN
           /\ section.name = pair.sectionName
           /\ \A e \in 1..Len(section.entries) :
                /\ rawConfigKey(pair.sectionName, pair.index, section.entries[e].key)
                     \in DOMAIN overrides
                /\ section.entries[e].value =
                     overrides[rawConfigKey(pair.sectionName, pair.index,
                                            section.entries[e].key)]

\* no two literal keys of the dictionary normalize to the same address
NoCollision ==
    \A r1, r2 \in DOMAIN expandedConfig :
        (r1 # r2 /\ GrammarKey(r1) /\ GrammarKey(r2))
          => GrammarAddress(r1) # GrammarAddress(r2)

\* C8: without colliding keys, every order of the ranges over the maps gives
\* the list this run returned.
C8_Deterministic ==
    (Done /\ NoCollision) =>
      qemuRawCfgOverride(impl, cfg, expandedConfig) = {result}

\* C9: a dictionary without a key of the grammar gives an empty override
\* map, and a run whose override map is empty returns the original list.
C9_IdentityFastPath ==
    Done =>
      /\ (\A r \in DOMAIN expandedConfig : ~GrammarKey(r)) => overrides = EmptyMap
      /\ overrides = EmptyMap => result = cfg

\* a run on a non-empty list with a non-empty dictionary, all of whose keys
\* fall outside the grammar, that returned the list
C9_Witness ==
    /\ Done
    /\ cfg # <<>>
    /\ DOMAIN expandedConfig # {}
    /\ overrides = EmptyMap
    /\ result = cfg

\* the literal keys that are section-level and name no occurrence of the
\* original list
NoOpSectionKeys ==
    {r \in DOMAIN expandedConfig :
       /\ GrammarKey(r)
       /\ GrammarAddress(r).entryKey = <<>>
       /\ ~OccurrenceExists(GrammarAddress(r).sectionName, GrammarAddress(r).index)}

Without(dict, rawKey) == [r \in DOMAIN dict \ {rawKey} |-> dict[r]]

\* C10: a section-level key that names no occurrence of the original list
\* changes nothing: no appended section is empty or carries an entry of empty
\* key, and the lists the function can return are the ones it can return
\* for the dictionary without that key.
C10_UnmatchedSectionKeyNoEffect ==
    Done =>
      \A r \in NoOpSectionKeys :
        /\ MergedPresent
        /\ \A j \in AppendedPos :
             /\ result[j].entries # <<>>
             /\ \A e \in 1..Len(result[j].entries) : result[j].entries[e].key # <<>>
        /\ qemuRawCfgOverride(impl, cfg, expandedConfig)
             = qemuRawCfgOverride(impl, cfg, Without(expandedConfig, r))

\* a run with such a key beside an entry-level key, on a non-empty list, that
\* appended a section
C10_Witness ==
    /\ Done
    /\ cfg # <<>>
    /\ NoOpSectionKeys # {}
    /\ Cardinality(DOMAIN overrides) >= 2
    /\ AppendedPos # {}

====
